---- MODULE Spec2Model ----
(***************************************************************************)
(* NeoFOAM: the term algebra (dsl::Expression), the free functions on      *)
(* Field (fill, setField, scalarMul, add, sub, mul, equal) and the         *)
(* run-time class registry (BaseClassRegistry / RegisteredClass /          *)
(* MAKE_CLASS_A_RUNTIME_FACTORY).                                          *)
(*                                                                         *)
(* The specifications of the module:                                       *)
(*   Spec          assembling and composing Expressions                    *)
(*   SpecAccess    the same with the accessors of Expression               *)
(*   SpecEval      Expression::explicitOperation                           *)
(*   SpecField     one call of a free function on Field                    *)
(*   SpecFill      fill followed by equal                                  *)
(*   SpecAddSub    add followed by sub                                     *)
(*   SpecDispatch  a dispatch of a free function, index by index           *)
(*   SpecReg       registration of variants and the factory lookup         *)
(***************************************************************************)
EXTENDS Integers, Sequences, FiniteSets, TLC

VARIABLES
    objs,      \* the Expression objects the caller holds, in order of creation
    last,      \* the last operation on Expressions: its operands, its result, the objects before it
    ev,        \* the call of Expression::explicitOperation in progress
    fa,        \* Field a, the field the free functions write
    fb,        \* Field b, the second operand of add, sub and mul
    flast,     \* the last free function called: its inputs and its outcome
    fseq,      \* the free functions called before the last, first to last
    disp,      \* the dispatch in progress: indices not begun, in flight, done
    classMap,  \* BaseClassRegistry::classMap(): the (name, constructor) pairs
    reg,       \* RegisteredClass<Derived,...>::reg of every variant type
    rstate,    \* phase of the process, instances built, calls of init() per variant
    rlast      \* the last registry operation: its inputs and its outcome

vars == <<objs, last, ev, fa, fb, flast, fseq, disp, classMap, reg, rstate, rlast>>
exprVars == <<objs, last, ev>>
fieldVars == <<fa, fb, flast, fseq, disp>>
regVars == <<classMap, reg, rstate, rlast>>

(***************************************************************************)
(* Bounds of the model.                                                    *)
(***************************************************************************)
\* Terms the caller's operands hold together when a run begins, at most
MaxTerms == 3
\* Terms of the Expression that is evaluated, at most
MaxSize == 3
\* Largest number of cells of an accumulator
MaxCells == 4
\* Largest size of a Field the free functions are called on
MaxLen == 2
\* Instances of one variant type built at most
MaxInstances == 2

(***************************************************************************)
(* Executor, Field, Operator (Term).                                       *)
(***************************************************************************)
Executors == {"Serial", "GPU"}

OperatorTypes == {"Temporal", "Implicit", "Explicit"}

\* Field<T>(exec, size, value)
NewField(exec, n, value) == [exec |-> exec, data |-> [i \in 1..n |-> value]]

\* What the discretization logic of a term adds to every cell per unit coefficient.
Contribution(model) ==
    CASE model = 1 -> 3
      [] model = 2 -> 5
      [] OTHER -> model

\* An Operator: its discretization logic, its Type, its Coeff, its Executor.
NewOperator(model, type, coeff, exec) ==
    [model |-> model, type |-> type, coeff |-> coeff, exec |-> exec]

\* The terms the caller builds from registered discretizations.
TermPool ==
    { NewOperator(1, "Explicit", 1, "Serial"),
      NewOperator(2, "Explicit", 2, "Serial"),
      NewOperator(3, "Implicit", 1, "Serial"),
      NewOperator(4, "Temporal", 1, "GPU") }

\* The scalars the caller scales by.
Scalars == {-1, 2}

\* Operator::getType()
getType(t) == t.type

\* scale * Operator: a new Operator, Coeff multiplied, same Type, Executor and logic.
ScaleOperator(scale, t) == [t EXCEPT !.coeff = scale * t.coeff]

\* Operator::explicitOperation(source): adds coeff * contribution into every cell.
OperatorExplicitOperation(t, source) ==
    [source EXCEPT !.data = [i \in DOMAIN source.data |->
                                source.data[i] + t.coeff * Contribution(t.model)]]

(***************************************************************************)
(* Expression.                                                             *)
(***************************************************************************)
\* Expression(exec)
NewExpression(exec) ==
    [exec |-> exec,
     temporalOperators |-> <<>>,
     implicitOperators |-> <<>>,
     explicitOperators |-> <<>>]

\* std::vector::push_back of every element of src, in the order of src
RECURSIVE PushBackAll(_, _)
PushBackAll(dst, src) ==
    IF src = <<>> THEN dst ELSE PushBackAll(Append(dst, Head(src)), Tail(src))

\* Expression::addOperator
addOperator(e, t) ==
    CASE getType(t) = "Temporal" ->
            [e EXCEPT !.temporalOperators = Append(@, t)]
      [] getType(t) = "Implicit" ->
            [e EXCEPT !.implicitOperators = Append(@, t)]
      [] getType(t) = "Explicit" ->
            [e EXCEPT !.explicitOperators = Append(@, t)]

\* Expression::addExpression without the loop over the implicit operators
addExpressionNoImplicit(e, equation) ==
    [e EXCEPT !.temporalOperators = PushBackAll(@, equation.temporalOperators),
              !.explicitOperators = PushBackAll(@, equation.explicitOperators)]

\* Expression::addExpression
addExpression(e, equation) ==
    [e EXCEPT !.temporalOperators = PushBackAll(@, equation.temporalOperators),
              !.implicitOperators = PushBackAll(@, equation.implicitOperators),
              !.explicitOperators = PushBackAll(@, equation.explicitOperators)]

\* Expression::size
size(e) ==
    Len(e.temporalOperators) + Len(e.implicitOperators) + Len(e.explicitOperators)

\* operator+(Expression lhs, const Expression& rhs): lhs is the callee's copy
operatorPlusEE(lhs, rhs) == addExpression(lhs, rhs)

\* operator+(Expression lhs, const Operator& rhs)
operatorPlusET(lhs, rhs) == addOperator(lhs, rhs)

\* operator+(const Operator& lhs, const Operator& rhs)
operatorPlusTT(lhs, rhs) == addOperator(addOperator(NewExpression(lhs.exec), lhs), rhs)

\* one loop of operator*(scalar, const Expression&): addOperator(scale * Operator) for each
RECURSIVE AddScaledAll(_, _, _)
AddScaledAll(expr, scale, ops) ==
    IF ops = <<>> THEN expr
    ELSE AddScaledAll(addOperator(expr, ScaleOperator(scale, Head(ops))), scale, Tail(ops))

\* operator*(scalar, const Expression&) without the loop over the temporal operators
operatorTimesNoTemporal(scale, es) ==
    AddScaledAll(
        AddScaledAll(NewExpression(es.exec), scale, es.implicitOperators),
        scale, es.explicitOperators)

\* operator*(scalar scale, const Expression& es)
operatorTimes(scale, es) ==
    AddScaledAll(
        AddScaledAll(
            AddScaledAll(NewExpression(es.exec), scale, es.temporalOperators),
            scale, es.implicitOperators),
        scale, es.explicitOperators)

\* operator-(Expression lhs, const Expression& rhs) adding rhs unscaled
operatorMinusEENoNegation(lhs, rhs) == addExpression(lhs, rhs)

\* operator-(Expression lhs, const Expression& rhs)
operatorMinusEE(lhs, rhs) == addExpression(lhs, operatorTimes(-1, rhs))

\* operator-(Expression lhs, const Operator& rhs)
operatorMinusET(lhs, rhs) == addOperator(lhs, ScaleOperator(-1, rhs))

\* operator-(const Operator& lhs, const Operator& rhs)
operatorMinusTT(lhs, rhs) ==
    addOperator(addOperator(NewExpression(lhs.exec), lhs), ScaleOperator(-1, rhs))

(***************************************************************************)
(* The calls as the caller sees them: h is the sequence of the caller's    *)
(* Expression objects, i and j index the operands.  A composition yields a *)
(* new object, appended to h (Expression has a const member and cannot be  *)
(* assigned to).  A by-value parameter is the callee's copy.               *)
(***************************************************************************)
\* e.addOperator(t) on the caller's object i
CallAddOperator(h, i, t) == [h EXCEPT ![i] = addOperator(h[i], t)]

\* What a read through an iterator into a buffer the vector has freed yields in
\* place of the element t: t still, t with a member overwritten, or other bytes.
FreedKinds == {"kept", "member", "bytes"}

FreedRead(t, kind) ==
    CASE kind = "kept" -> t
      [] kind = "member" -> [t EXCEPT !.exec = ""]
      [] kind = "bytes" -> NewOperator(0, "Temporal", 0, "")

\* e.addExpression(e): each range-for of addExpression push_backs into the vector
\* it iterates.  The push_back that first exceeds the capacity reallocates and
\* frees the buffer the loop still walks: the reads up to that one are of live
\* elements (the first always is), the later ones of freed memory, and what they
\* yield, or whether the process dies there, is up to the build.
\* The sequences a loop over ops can read:
SelfReads(ops) ==
    IF Len(ops) = 0 THEN {<<>>}
    ELSE { [k \in 1..Len(ops) |-> IF k <= live THEN ops[k] ELSE FreedRead(ops[k], kind)] :
              live \in 1..Len(ops), kind \in FreedKinds }

\* the outcomes of e.addExpression(e): the process dies, or the loops read these
SelfAddOutcomes(e) ==
    { [crashes |-> FALSE, temporalOperators |-> rt, implicitOperators |-> ri,
       explicitOperators |-> re] :
          rt \in SelfReads(e.temporalOperators),
          ri \in SelfReads(e.implicitOperators),
          re \in SelfReads(e.explicitOperators) }
    \cup (IF size(e) = 0 THEN {}
          ELSE {[crashes |-> TRUE, temporalOperators |-> <<>>,
                 implicitOperators |-> <<>>, explicitOperators |-> <<>>]})

\* the outcome of a call whose argument is another object
NoAlias == [crashes |-> FALSE, temporalOperators |-> <<>>,
            implicitOperators |-> <<>>, explicitOperators |-> <<>>]

\* Expression::addExpression with the receiver as its argument, under outcome ub
addExpressionSelf(e, ub) ==
    IF ub.crashes THEN e
    ELSE [e EXCEPT !.temporalOperators = PushBackAll(@, ub.temporalOperators),
                   !.implicitOperators = PushBackAll(@, ub.implicitOperators),
                   !.explicitOperators = PushBackAll(@, ub.explicitOperators)]

\* e.addExpression(other): other is a const reference to the caller's object j,
\* which may be the receiver itself (i = j)
CallAddExpression(h, i, j, ub) ==
    IF i = j
    THEN [outcome |-> IF ub.crashes THEN "crash" ELSE "ok",
          h |-> [h EXCEPT ![i] = addExpressionSelf(h[i], ub)]]
    ELSE [outcome |-> "ok", h |-> [h EXCEPT ![i] = addExpression(h[i], h[j])]]

CallPlusEE(h, i, j) == Append(h, operatorPlusEE(h[i], h[j]))

CallPlusET(h, i, t) == Append(h, operatorPlusET(h[i], t))

CallPlusTT(h, t1, t2) == Append(h, operatorPlusTT(t1, t2))

CallTimes(h, scale, i) == Append(h, operatorTimes(scale, h[i]))

CallMinusEE(h, i, j) == Append(h, operatorMinusEE(h[i], h[j]))

CallMinusET(h, i, t) == Append(h, operatorMinusET(h[i], t))

CallMinusTT(h, t1, t2) == Append(h, operatorMinusTT(t1, t2))

(***************************************************************************)
(* Expression::explicitOperation as a sequence of steps: the loop over the *)
(* explicit operators begins a term, the term completes, the loop goes on. *)
(***************************************************************************)
\* The sequence the loop of explicitOperation ranges over, with the implicit operators too
EvalTermsAllOperators(e) == e.implicitOperators \o e.explicitOperators

\* The sequence the loop of explicitOperation ranges over
EvalTerms(e) == e.explicitOperators

NoField == NewField("Serial", 0, 0)

EvIdle == [pc |-> "idle", entry |-> "none", nCells |-> 0, obj |-> 0, k |-> 0,
           given |-> NoField, source |-> NoField, log |-> <<>>, ret |-> NoField]

\* The accumulators a caller passes to explicitOperation(Field<scalar>&)
CallerSources == { NewField(x, 2, 1) : x \in Executors }

NoTerm == NewOperator(0, "Explicit", 0, "Serial")

NoLast == [op |-> "none", i |-> 0, j |-> 0, tl |-> NoTerm, tr |-> NoTerm,
           scale |-> 0, target |-> 0, outcome |-> "none", pre |-> <<>>]

Record(op, i, j, tl, tr, scale, target) ==
    [op |-> op, i |-> i, j |-> j, tl |-> tl, tr |-> tr,
     scale |-> scale, target |-> target, outcome |-> "ok", pre |-> objs]

\* The Expression the caller gets from Expression e(exec); e.addOperator(t) for t in terms
RECURSIVE Assemble(_, _)
Assemble(exec, terms) ==
    IF terms = <<>> THEN NewExpression(exec)
    ELSE addOperator(Assemble(exec, SubSeq(terms, 1, Len(terms) - 1)), terms[Len(terms)])

\* The sequences of at most n terms of TermPool
RECURSIVE TermSeqs(_)
TermSeqs(n) ==
    IF n = 0 THEN {<<>>}
    ELSE TermSeqs(n - 1) \cup
         { Append(q, t) : q \in { r \in TermSeqs(n - 1) : Len(r) = n - 1 }, t \in TermPool }

CompositionOps == {"PlusEE", "PlusET", "PlusTT", "Times", "MinusEE", "MinusET", "MinusTT"}

\* The caller has assembled its operands and has not used them yet.
Fresh == last.op = "none"

\* The caller has composed a result and not added to any object since.
Composed == last.op \in CompositionOps

\* A run begins with two operands the caller has assembled on one Executor.
ExprInit ==
    /\ \E x \in Executors, q1, q2 \in TermSeqs(MaxTerms) :
          /\ Len(q1) + Len(q2) <= MaxTerms
          /\ objs = <<Assemble(x, q1), Assemble(x, q2)>>
    /\ last = NoLast
    /\ ev = EvIdle

\* objs[i].addOperator(t)
AddOperator(i, t) ==
    /\ Fresh \/ Composed
    /\ objs' = CallAddOperator(objs, i, t)
    /\ last' = Record("addOperator", i, 0, t, NoTerm, 0, i)
    /\ UNCHANGED ev

\* objs[i].addExpression(objs[j]); ub is what the build makes of the call when
\* objs[j] is objs[i] itself
AddExpression(i, j, ub) ==
    /\ Fresh \/ Composed
    /\ objs' = CallAddExpression(objs, i, j, ub).h
    /\ last' = [Record("addExpression", i, j, NoTerm, NoTerm, 0, i) EXCEPT
                    !.outcome = CallAddExpression(objs, i, j, ub).outcome]
    /\ UNCHANGED ev

\* Expression r = objs[i] + objs[j];
PlusEE(i, j) ==
    /\ Fresh
    /\ objs' = CallPlusEE(objs, i, j)
    /\ last' = Record("PlusEE", i, j, NoTerm, NoTerm, 0, Len(objs) + 1)
    /\ UNCHANGED ev

\* Expression r = objs[i] + t;
PlusET(i, t) ==
    /\ Fresh
    /\ objs' = CallPlusET(objs, i, t)
    /\ last' = Record("PlusET", i, 0, NoTerm, t, 0, Len(objs) + 1)
    /\ UNCHANGED ev

\* Expression r = t1 + t2;
PlusTT(t1, t2) ==
    /\ Fresh
    /\ objs' = CallPlusTT(objs, t1, t2)
    /\ last' = Record("PlusTT", 0, 0, t1, t2, 0, Len(objs) + 1)
    /\ UNCHANGED ev

\* Expression r = scale * objs[i];
Times(scale, i) ==
    /\ Fresh
    /\ objs' = CallTimes(objs, scale, i)
    /\ last' = Record("Times", i, 0, NoTerm, NoTerm, scale, Len(objs) + 1)
    /\ UNCHANGED ev

\* Expression r = objs[i] - objs[j];
MinusEE(i, j) ==
    /\ Fresh
    /\ objs' = CallMinusEE(objs, i, j)
    /\ last' = Record("MinusEE", i, j, NoTerm, NoTerm, 0, Len(objs) + 1)
    /\ UNCHANGED ev

\* Expression r = objs[i] - t;
MinusET(i, t) ==
    /\ Fresh
    /\ objs' = CallMinusET(objs, i, t)
    /\ last' = Record("MinusET", i, 0, NoTerm, t, 0, Len(objs) + 1)
    /\ UNCHANGED ev

\* Expression r = t1 - t2;
MinusTT(t1, t2) ==
    /\ Fresh
    /\ objs' = CallMinusTT(objs, t1, t2)
    /\ last' = Record("MinusTT", 0, 0, t1, t2, 0, Len(objs) + 1)
    /\ UNCHANGED ev

ExprNext ==
    \/ \E i \in 1..Len(objs), t \in TermPool : AddOperator(i, t)
    \/ /\ Fresh \/ Composed
       /\ \E i, j \in 1..Len(objs) :
             \E ub \in (IF i = j THEN SelfAddOutcomes(objs[i]) ELSE {NoAlias}) :
                 AddExpression(i, j, ub)
    \/ \E i, j \in 1..Len(objs) : PlusEE(i, j)
    \/ \E i \in 1..Len(objs), t \in TermPool : PlusET(i, t)
    \/ \E t1, t2 \in TermPool : PlusTT(t1, t2)
    \/ \E s \in Scalars, i \in 1..Len(objs) : Times(s, i)
    \/ \E i, j \in 1..Len(objs) : MinusEE(i, j)
    \/ \E i \in 1..Len(objs), t \in TermPool : MinusET(i, t)
    \/ \E t1, t2 \in TermPool : MinusTT(t1, t2)

(***************************************************************************)
(* The accessors.  temporalOperators(), implicitOperators() and            *)
(* explicitOperators() have a const overload, which returns a reference to *)
(* const, and a non-const overload, which returns std::vector<Operator>&:  *)
(* on a non-const Expression the caller gets the vector itself and calls   *)
(* the members of std::vector on it.                                       *)
(***************************************************************************)
Categories == {"temporalOperators", "implicitOperators", "explicitOperators"}

\* the const overloads: the sequence, to read
operatorsConst(e, cat) == e[cat]

\* e.xxxOperators().push_back(t) through the non-const overload
accessorPushBack(e, cat, t) == [e EXCEPT ![cat] = Append(@, t)]

\* e.xxxOperators().pop_back()
accessorPopBack(e, cat) == [e EXCEPT ![cat] = SubSeq(@, 1, Len(@) - 1)]

\* e.xxxOperators()[k] = t
accessorAssign(e, cat, k, t) == [e EXCEPT ![cat][k] = t]

\* std::swap(e.xxxOperators()[k], e.xxxOperators()[m])
accessorSwap(e, cat, k, m) == [e EXCEPT ![cat][k] = e[cat][m], ![cat][m] = e[cat][k]]

MutableAccessOps == {"accessorPushBack", "accessorPopBack", "accessorAssign", "accessorSwap"}

\* const auto& ops = objs[i].xxxOperators(); on a const Expression
ReadOperators(i, cat) ==
    /\ Fresh
    /\ objs' = objs
    /\ last' = [Record("read", i, 0, NoTerm, NoTerm, 0, i) EXCEPT
                    !.scale = Len(operatorsConst(objs[i], cat))]
    /\ UNCHANGED ev

\* objs[i].xxxOperators().push_back(t)
AccessorPushBack(i, cat, t) ==
    /\ Fresh
    /\ objs' = [objs EXCEPT ![i] = accessorPushBack(@, cat, t)]
    /\ last' = Record("accessorPushBack", i, 0, t, NoTerm, 0, i)
    /\ UNCHANGED ev

\* objs[i].xxxOperators().pop_back() on a vector that is not empty
AccessorPopBack(i, cat) ==
    /\ Fresh
    /\ objs[i][cat] # <<>>
    /\ objs' = [objs EXCEPT ![i] = accessorPopBack(@, cat)]
    /\ last' = Record("accessorPopBack", i, 0, NoTerm, NoTerm, 0, i)
    /\ UNCHANGED ev

\* objs[i].xxxOperators()[k] = t with k inside the vector
AccessorAssign(i, cat, k, t) ==
    /\ Fresh
    /\ k \in 1..Len(objs[i][cat])
    /\ objs' = [objs EXCEPT ![i] = accessorAssign(@, cat, k, t)]
    /\ last' = Record("accessorAssign", i, k, t, NoTerm, 0, i)
    /\ UNCHANGED ev

\* std::swap of the elements k < m of objs[i].xxxOperators()
AccessorSwap(i, cat, k, m) ==
    /\ Fresh
    /\ k \in 1..Len(objs[i][cat])
    /\ m \in 1..Len(objs[i][cat])
    /\ k < m
    /\ objs' = [objs EXCEPT ![i] = accessorSwap(@, cat, k, m)]
    /\ last' = Record("accessorSwap", i, k, NoTerm, NoTerm, 0, i)
    /\ UNCHANGED ev

AccessNext ==
    \/ \E i \in 1..Len(objs), cat \in Categories : ReadOperators(i, cat)
    \/ \E i \in 1..Len(objs), cat \in Categories, t \in TermPool : AccessorPushBack(i, cat, t)
    \/ \E i \in 1..Len(objs), cat \in Categories : AccessorPopBack(i, cat)
    \/ \E i \in 1..Len(objs), cat \in Categories, k \in 1..MaxTerms, t \in TermPool :
          AccessorAssign(i, cat, k, t)
    \/ \E i \in 1..Len(objs), cat \in Categories, k, m \in 1..MaxTerms :
          AccessorSwap(i, cat, k, m)

\* objs[i].explicitOperation(nCells) whose source is one cell short
ExplicitOperationNShort(i, nCells) ==
    /\ ev.pc = "idle"
    /\ ev' = [pc |-> "loop", entry |-> "nCells", nCells |-> nCells, obj |-> i, k |-> 1,
              given |-> NewField(objs[i].exec, nCells - 1, 0),
              source |-> NewField(objs[i].exec, nCells - 1, 0),
              log |-> <<>>, ret |-> NoField]
    /\ UNCHANGED <<objs, last>>

\* objs[i].explicitOperation(nCells): a zero-filled source on exec_, then the loop
ExplicitOperationN(i, nCells) ==
    /\ ev.pc = "idle"
    /\ ev' = [pc |-> "loop", entry |-> "nCells", nCells |-> nCells, obj |-> i, k |-> 1,
              given |-> NewField(objs[i].exec, nCells, 0),
              source |-> NewField(objs[i].exec, nCells, 0),
              log |-> <<>>, ret |-> NoField]
    /\ UNCHANGED <<objs, last>>

\* objs[i].explicitOperation(source) with the caller's accumulator
ExplicitOperationSource(i, src) ==
    /\ ev.pc = "idle"
    /\ ev' = [pc |-> "loop", entry |-> "source", nCells |-> 0, obj |-> i, k |-> 1,
              given |-> src, source |-> src, log |-> <<>>, ret |-> NoField]
    /\ UNCHANGED <<objs, last>>

\* the loop takes its next element and calls Operator.explicitOperation(source)
TermBegin ==
    /\ ev.pc = "loop"
    /\ ev.k <= Len(EvalTerms(objs[ev.obj]))
    /\ ev' = [ev EXCEPT !.pc = "term",
                         !.log = Append(@, <<"begin", EvalTerms(objs[ev.obj])[ev.k]>>)]
    /\ UNCHANGED <<objs, last>>

\* Operator.explicitOperation(source) returns, source holds its contribution
TermEnd ==
    /\ ev.pc = "term"
    /\ ev' = [ev EXCEPT !.pc = "loop",
                         !.k = @ + 1,
                         !.source = OperatorExplicitOperation(
                                        EvalTerms(objs[ev.obj])[ev.k], @),
                         !.log = Append(@, <<"end", EvalTerms(objs[ev.obj])[ev.k]>>)]
    /\ UNCHANGED <<objs, last>>

\* the loop is over: return source
EvalReturn ==
    /\ ev.pc = "loop"
    /\ ev.k > Len(EvalTerms(objs[ev.obj]))
    /\ ev' = [ev EXCEPT !.pc = "done", !.ret = ev.source]
    /\ UNCHANGED <<objs, last>>

\* the caller takes the result
EvalTaken ==
    /\ ev.pc = "done"
    /\ ev' = EvIdle
    /\ UNCHANGED <<objs, last>>

EvalNext ==
    \/ \E i \in 1..Len(objs), n \in 0..MaxCells : ExplicitOperationN(i, n)
    \/ \E i \in 1..Len(objs), src \in CallerSources : ExplicitOperationSource(i, src)
    \/ TermBegin
    \/ TermEnd
    \/ EvalReturn
    \/ EvalTaken

\* The Expressions a caller evaluates: assembled from terms, possibly scaled.
EvalInit ==
    /\ \E x \in Executors, q \in TermSeqs(MaxSize) :
          \/ objs = <<Assemble(x, q)>>
          \/ \E s \in Scalars : objs = <<operatorTimes(s, Assemble(x, q))>>
    /\ last = NoLast
    /\ ev = EvIdle

(***************************************************************************)
(* The free functions on Field.  A run draws the fields a and b and calls  *)
(* one free function on them; flast records the call and how it ended:     *)
(* "ok" (it returned), "LengthMismatch" (it threw), "crash" (the process   *)
(* died on an access outside a buffer).                                    *)
(***************************************************************************)
\* scalar is float (the typedef without NEOFOAM_DP_SCALAR): a significand of
\* FloatPrecision bits.  A value of the model is the integer a float holds, an
\* infinity, or NaN.
FloatPrecision == 24

\* 2^FloatPrecision: from here on not every integer is a float
Big == 2^FloatPrecision

\* the not-a-number value of float: like PosInf an odd integer above 2^24, which
\* is the integer of no float, so that no finite result is read as NaN
NaN == 1073741821

\* the positive infinity of float; the negative one is -PosInf
PosInf == 1073741823

Abs(x) == IF x < 0 THEN -x ELSE x

\* neither NaN nor an infinity
IsFinite(v) == v # NaN /\ Abs(v) # PosInf

\* the distance between neighbouring floats at magnitude m
RECURSIVE Ulp(_)
Ulp(m) == IF m < Big THEN 1 ELSE 2 * Ulp(m \div 2)

\* the float nearest to the integer x, ties to the even significand
RoundToFloat(x) ==
    LET m == Abs(x)
        u == Ulp(m)
        q == m \div u
        r == m % u
        n == IF 2 * r < u THEN q * u
             ELSE IF 2 * r > u THEN (q + 1) * u
             ELSE (q + (q % 2)) * u
    IN  IF x < 0 THEN -n ELSE n

\* va + vb, va - vb, va * vb on float
\* an infinity absorbs every finite value and its own sign; the sum of the two
\* infinities is NaN
FloatAdd(va, vb) ==
    IF va = NaN \/ vb = NaN THEN NaN
    ELSE IF ~IsFinite(va) /\ ~IsFinite(vb) THEN (IF va = vb THEN va ELSE NaN)
    ELSE IF ~IsFinite(va) THEN va
    ELSE IF ~IsFinite(vb) THEN vb
    ELSE RoundToFloat(va + vb)

FloatSub(va, vb) == FloatAdd(va, IF vb = NaN THEN NaN ELSE -vb)

\* an infinity times zero is NaN, times anything else an infinity of the sign of
\* the product
FloatMul(va, vb) ==
    IF va = NaN \/ vb = NaN THEN NaN
    ELSE IF ~IsFinite(va) \/ ~IsFinite(vb)
         THEN (IF va = 0 \/ vb = 0 THEN NaN
               ELSE IF (va < 0) = (vb < 0) THEN PosInf ELSE -PosInf)
    ELSE RoundToFloat(va * vb)

\* va != vb on float: NaN differs from every value, itself included
FloatNotEqual(va, vb) == va = NaN \/ vb = NaN \/ va # vb

FieldValues == {0, 1, 2}

\* the values of the fields that are filled and compared
FillValues == FieldValues \cup {NaN}

\* what a read past the end of a shorter view can yield: any float, that is
\* every value the fields hold, and, for the floats they do not hold, a large
\* one and a NaN
GarbageValues == FieldValues \cup {Big, NaN}

\* the values of the fields that are added and subtracted: small ones, one at
\* which sums are rounded, an infinity and NaN
WideValues == {1, 3, Big, PosInf, NaN}

\* the sequences of at most n elements of S
SeqsOver(S, n) == UNION { [1..k -> S] : k \in 0..n }

\* The sequences of at most n values
RECURSIVE ValueSeqs(_)
ValueSeqs(n) ==
    IF n = 0 THEN {<<>>}
    ELSE ValueSeqs(n - 1) \cup
         { Append(q, v) : q \in { r \in ValueSeqs(n - 1) : Len(r) = n - 1 }, v \in FieldValues }

\* Field::size
fsize(f) == Len(f.data)

\* parallelFor(field, kernel): span[i] = kernel(i) for every index i of the field,
\* returning when all are done (indices of the source count from 0, those of the
\* model from 1)
parallelForField(a, kernel) ==
    [a EXCEPT !.data = [i \in DOMAIN a.data |-> kernel[i]]]

\* parallelFor(exec, {start, end}, kernel): kernel(i) for start <= i < end, where
\* the kernels of this file write span[i] = written(i)
parallelForRange(a, start, end, written) ==
    [a EXCEPT !.data = [i \in DOMAIN a.data |->
                            IF start < i /\ i <= end THEN written[i] ELSE a.data[i]]]

\* map(a, inner) on a Field: parallelFor(a, inner), every element becomes inner(i)
mapField(a, inner) == parallelForField(a, inner)

\* fill that writes the whole field whatever the interval
fillIgnoringInterval(a, value, start, end) ==
    [a EXCEPT !.data = [i \in DOMAIN a.data |-> value]]

\* fill(a, value, {start, end}): span[i] = value over the range
fill(a, value, start, end) ==
    LET kernel == [i \in DOMAIN a.data |-> value]
    IN  parallelForRange(a, start, end, kernel)

\* scalarMul: parallelFor(a, i -> spanA[i] * value)
scalarMul(a, value) ==
    LET kernel == [i \in DOMAIN a.data |-> FloatMul(a.data[i], value)]
    IN  parallelForField(a, kernel)

\* the lambdas add, sub and mul hand to fieldBinaryOp
BinaryOp(name, va, vb) ==
    CASE name = "add" -> FloatAdd(va, vb)
      [] name = "sub" -> FloatSub(va, vb)
      [] name = "mul" -> FloatMul(va, vb)

\* NeoFOAM_ASSERT_EQUAL_LENGTH(a, b): throws when the sizes differ
AssertEqualLengthThrows(a, b) == fsize(a) # fsize(b)

Smaller(m, n) == IF m < n THEN m ELSE n

\* detail::fieldBinaryOp that dispatches over the common indices before it checks the lengths
fieldBinaryOpCheckLast(a, b, name) ==
    [outcome |-> IF AssertEqualLengthThrows(a, b) THEN "LengthMismatch" ELSE "ok",
     a |-> [a EXCEPT !.data = [i \in DOMAIN a.data |->
                IF i <= Smaller(fsize(a), fsize(b))
                THEN BinaryOp(name, a.data[i], b.data[i]) ELSE a.data[i]]]]

\* detail::fieldBinaryOp: the assertion, then parallelFor(a, i -> op(spanA[i], spanB[i]))
fieldBinaryOp(a, b, name) ==
    LET kernel == [i \in DOMAIN a.data |-> BinaryOp(name, a.data[i], b.data[i])]
    IN  IF AssertEqualLengthThrows(a, b)
        THEN [outcome |-> "LengthMismatch", a |-> a]
        ELSE [outcome |-> "ok", a |-> parallelForField(a, kernel)]

\* add, sub, mul: nothing catches what fieldBinaryOp throws
add(a, b) == fieldBinaryOp(a, b, "add")

\* sub with the lambda of add
subAdding(a, b) == fieldBinaryOp(a, b, "add")

sub(a, b) == fieldBinaryOp(a, b, "sub")

mul(a, b) == fieldBinaryOp(a, b, "mul")

\* setField: parallelFor(a, i -> b[i]) over the indices of a, no check of the length of b.
\* b[i] beyond the end of the span b is a read outside the buffer: the build may
\* crash there or read any value (garbage[i]).
setField(a, b, garbage, crashes) ==
    LET kernel == [i \in DOMAIN a.data |->
                      IF i <= Len(b) THEN b[i]
                      ELSE IF crashes THEN a.data[i] ELSE garbage[i]]
    IN  [outcome |-> IF fsize(a) > Len(b) /\ crashes THEN "crash" ELSE "ok",
         a |-> parallelForField(a, kernel)]

\* Field::copyToHost: a Field on the host with the same contents
copyToHost(f) == [f EXCEPT !.exec = "Serial"]

\* the loop of equal(field, value) from index i on: false at the first element
\* that differs, true at the end
RECURSIVE equalLoop(_, _, _)
equalLoop(hostSpan, value, i) ==
    IF i > Len(hostSpan) THEN TRUE
    ELSE IF FloatNotEqual(hostSpan[i], value) THEN FALSE
    ELSE equalLoop(hostSpan, value, i + 1)

\* equal(field, value)
equalValue(field, value) == equalLoop(copyToHost(field).data, value, 1)

\* no dispatch in progress
DispIdle == [pc |-> "idle", op |-> "none", value |-> 0, start |-> 0, end |-> 0,
             view |-> <<>>, pending |-> {}, loaded |-> {}, applied |-> <<>>,
             order |-> <<>>, preA |-> NoField, preB |-> NoField]

NoFLast == [op |-> "none", value |-> 0, start |-> 0, end |-> 0, view |-> <<>>,
            preA |-> NoField, preB |-> NoField, outcome |-> "none"]

FRecord(op, value, start, end, view, outcome) ==
    [op |-> op, value |-> value, start |-> start, end |-> end, view |-> view,
     preA |-> fa, preB |-> fb, outcome |-> outcome]

\* the values of the second operand of add, sub and mul
OperandValues == {1, 2}

\* a run begins with two fields on one Executor
FieldInit ==
    /\ \E x \in Executors, da \in ValueSeqs(MaxLen), db \in SeqsOver(OperandValues, MaxLen) :
          /\ fa = [exec |-> x, data |-> da]
          /\ fb = [exec |-> x, data |-> db]
    /\ flast = NoFLast
    /\ fseq = <<>>
    /\ disp = DispIdle

FieldFixed ==
    /\ fa = NoField
    /\ fb = NoField
    /\ flast = NoFLast
    /\ fseq = <<>>
    /\ disp = DispIdle

\* fill(a, value): the whole field
FillAll(value) ==
    /\ flast.op = "none"
    /\ fa' = fill(fa, value, 0, fsize(fa))
    /\ flast' = FRecord("fill", value, 0, fsize(fa), <<>>, "ok")
    /\ UNCHANGED fb

\* fill(a, value, {start, end}) with a range inside the buffer
FillRange(value, start, end) ==
    /\ flast.op = "none"
    /\ start <= fsize(fa)
    /\ end <= fsize(fa)
    /\ fa' = fill(fa, value, start, end)
    /\ flast' = FRecord("fillRange", value, start, end, <<>>, "ok")
    /\ UNCHANGED fb

\* setField(a, view); garbage and crashes say what the build does with the reads
\* beyond the end of a view shorter than a
SetField(view, garbage, crashes) ==
    /\ flast.op = "none"
    /\ fa' = setField(fa, view, garbage, crashes).a
    /\ flast' = FRecord("setField", 0, 0, 0, view, setField(fa, view, garbage, crashes).outcome)
    /\ UNCHANGED fb

\* map(a, inner)
Map(inner) ==
    /\ flast.op = "none"
    /\ fa' = mapField(fa, inner)
    /\ flast' = FRecord("map", 0, 0, 0, inner, "ok")
    /\ UNCHANGED fb

\* scalarMul(a, value)
ScalarMul(value) ==
    /\ flast.op = "none"
    /\ fa' = scalarMul(fa, value)
    /\ flast' = FRecord("scalarMul", value, 0, 0, <<>>, "ok")
    /\ UNCHANGED fb

\* add(a, b)
Add ==
    /\ flast.op = "none"
    /\ fa' = add(fa, fb).a
    /\ flast' = FRecord("add", 0, 0, 0, <<>>, add(fa, fb).outcome)
    /\ UNCHANGED fb

\* sub(a, b)
Sub ==
    /\ flast.op = "none"
    /\ fa' = sub(fa, fb).a
    /\ flast' = FRecord("sub", 0, 0, 0, <<>>, sub(fa, fb).outcome)
    /\ UNCHANGED fb

\* mul(a, b)
Mul ==
    /\ flast.op = "none"
    /\ fa' = mul(fa, fb).a
    /\ flast' = FRecord("mul", 0, 0, 0, <<>>, mul(fa, fb).outcome)
    /\ UNCHANGED fb

\* equal(a, value) after a fill
EqualValue(value) ==
    /\ flast.op \in {"fill", "fillRange"}
    /\ fseq = <<>>
    /\ flast' = FRecord("equal", value, 0, 0, <<>>,
                        IF equalValue(fa, value) THEN "true" ELSE "false")
    /\ fseq' = Append(fseq, flast)
    /\ UNCHANGED <<fa, fb>>

\* sub(a, b) after add(a, b)
SubAfterAdd ==
    /\ flast.op = "add"
    /\ fseq = <<>>
    /\ fa' = sub(fa, fb).a
    /\ flast' = FRecord("sub", 0, 0, 0, <<>>, sub(fa, fb).outcome)
    /\ fseq' = Append(fseq, flast)
    /\ UNCHANGED fb

\* a field to fill and compare
FillInit ==
    /\ \E x \in Executors, da \in SeqsOver(FillValues, MaxLen) :
          fa = [exec |-> x, data |-> da]
    /\ fb = NoField
    /\ flast = NoFLast
    /\ fseq = <<>>
    /\ disp = DispIdle

FillNext ==
    \/ \E v \in FillValues : FillAll(v) /\ UNCHANGED fseq
    \/ \E v \in FillValues, start, end \in 0..MaxLen :
          FillRange(v, start, end) /\ UNCHANGED fseq
    \/ \E v \in FillValues : EqualValue(v)

\* two fields on one Executor to add and subtract
AddSubInit ==
    /\ \E x \in Executors, da, db \in SeqsOver(WideValues, MaxLen) :
          /\ fa = [exec |-> x, data |-> da]
          /\ fb = [exec |-> x, data |-> db]
    /\ flast = NoFLast
    /\ fseq = <<>>
    /\ disp = DispIdle

AddSubNext ==
    \/ Add /\ UNCHANGED fseq
    \/ SubAfterAdd

(***************************************************************************)
(* A dispatch step by step.  parallelFor hands every index of its range to *)
(* the Executor; the body of an index computes its value from the buffers  *)
(* as they are at that moment (BodyBegin) and writes it (BodyEnd), the     *)
(* bodies of different indices in any order and interleaved; the call      *)
(* returns when no index is left.  The calls are those whose bodies stay   *)
(* inside the buffers: an interval inside the field, a view at least as    *)
(* long as the field.                                                      *)
(***************************************************************************)
DispatchValues == {1, 2}

\* the body of fill: span[i] = value
kernelFill(value, i) == value

\* the body of setField: b[i]
kernelSetField(b, i) == b[i]

\* the body of scalarMul reading the element before its own
kernelScalarMulNeighbour(spanA, value, i) ==
    FloatMul(spanA[IF i > 1 THEN i - 1 ELSE i], value)

\* the body of scalarMul: spanA[i] * value
kernelScalarMul(spanA, value, i) == FloatMul(spanA[i], value)

\* the body of fieldBinaryOp: op(spanA[i], spanB[i])
kernelBinaryOp(name, spanA, spanB, i) == BinaryOp(name, spanA[i], spanB[i])

BinaryNames == {"add", "sub", "mul"}

\* what the body of index i of dispatch d writes, the buffers being spanA and spanB
Body(d, spanA, spanB, i) ==
    CASE d.op = "fill" -> kernelFill(d.value, i)
      [] d.op = "setField" -> kernelSetField(d.view, i)
      [] d.op = "scalarMul" -> kernelScalarMul(spanA, d.value, i)
      [] d.op \in BinaryNames -> kernelBinaryOp(d.op, spanA, spanB, i)

\* the call enters parallelFor with the indices in range
Dispatch(op, value, start, end, view, range) ==
    [pc |-> "running", op |-> op, value |-> value, start |-> start, end |-> end,
     view |-> view, pending |-> range, loaded |-> {},
     applied |-> [i \in 1..fsize(fa) |-> 0], order |-> <<>>,
     preA |-> fa, preB |-> fb]

\* fill(a, value, {start, end}) with an interval inside the buffer, or the whole buffer
BeginFill(value, start, end) ==
    /\ disp.pc = "idle"
    /\ start <= fsize(fa)
    /\ end <= fsize(fa)
    /\ disp' = Dispatch("fill", value, start, end, <<>>,
                        { i \in 1..fsize(fa) : start < i /\ i <= end })
    /\ UNCHANGED <<fa, fb, flast, fseq>>

\* setField(a, view) with a view at least as long as a
BeginSetField(view) ==
    /\ disp.pc = "idle"
    /\ Len(view) >= fsize(fa)
    /\ disp' = Dispatch("setField", 0, 0, 0, view, 1..fsize(fa))
    /\ UNCHANGED <<fa, fb, flast, fseq>>

\* scalarMul(a, value)
BeginScalarMul(value) ==
    /\ disp.pc = "idle"
    /\ disp' = Dispatch("scalarMul", value, 0, 0, <<>>, 1..fsize(fa))
    /\ UNCHANGED <<fa, fb, flast, fseq>>

\* add, sub, mul: the assertion of fieldBinaryOp, then the dispatch
BeginBinary(name) ==
    /\ disp.pc = "idle"
    /\ disp' = IF AssertEqualLengthThrows(fa, fb)
               THEN [Dispatch(name, 0, 0, 0, <<>>, {}) EXCEPT !.pc = "threw"]
               ELSE Dispatch(name, 0, 0, 0, <<>>, 1..fsize(fa))
    /\ UNCHANGED <<fa, fb, flast, fseq>>

\* the body of index i begins: it computes its value from the buffers as they are
BodyBegin(i) ==
    /\ disp.pc = "running"
    /\ i \in disp.pending
    /\ disp' = [disp EXCEPT
                   !.pending = @ \ {i},
                   !.loaded = @ \cup {[i |-> i, v |-> Body(disp, fa.data, fb.data, i)]}]
    /\ UNCHANGED <<fa, fb, flast, fseq>>

\* the body of index i ends: its value is in span[i]
BodyEnd(i) ==
    /\ disp.pc = "running"
    /\ \E l \in disp.loaded :
          /\ l.i = i
          /\ fa' = [fa EXCEPT !.data[i] = l.v]
          /\ disp' = [disp EXCEPT !.loaded = @ \ {l},
                                  !.applied[i] = @ + 1,
                                  !.order = Append(@, i)]
    /\ UNCHANGED <<fb, flast, fseq>>

\* parallelFor returns: no index is left
DispatchReturn ==
    /\ disp.pc = "running"
    /\ disp.pending = {}
    /\ disp.loaded = {}
    /\ disp' = [disp EXCEPT !.pc = "returned"]
    /\ UNCHANGED <<fa, fb, flast, fseq>>

\* two fields on one Executor for the call
DispatchInit ==
    /\ \E x \in Executors, da, db \in SeqsOver(DispatchValues, MaxLen) :
          /\ fa = [exec |-> x, data |-> da]
          /\ fb = [exec |-> x, data |-> db]
    /\ flast = NoFLast
    /\ fseq = <<>>
    /\ disp = DispIdle

DispatchNext ==
    \/ \E v \in DispatchValues, start, end \in 0..MaxLen : BeginFill(v, start, end)
    \/ \E view \in SeqsOver(DispatchValues, MaxLen) : BeginSetField(view)
    \/ \E v \in DispatchValues : BeginScalarMul(v)
    \/ \E name \in BinaryNames : BeginBinary(name)
    \/ \E i \in 1..MaxLen : BodyBegin(i)
    \/ \E i \in 1..MaxLen : BodyEnd(i)
    \/ DispatchReturn

FieldNext ==
    \/ \E v \in FieldValues : FillAll(v)
    \/ \E v \in FieldValues, start, end \in 0..MaxLen : FillRange(v, start, end)
    \/ \E view \in ValueSeqs(MaxLen) :
          \/ \E garbage \in [(Len(view) + 1)..fsize(fa) -> GarbageValues] :
                SetField(view, garbage, FALSE)
          \/ /\ fsize(fa) > Len(view)
             /\ SetField(view, [k \in (Len(view) + 1)..fsize(fa) |-> 0], TRUE)
    \/ \E inner \in [1..fsize(fa) -> FieldValues] : Map(inner)
    \/ \E v \in FieldValues : ScalarMul(v)
    \/ Add
    \/ Sub
    \/ Mul

(***************************************************************************)
(* The run-time registry.  Variants are the derived classes of the         *)
(* program; the static member reg of RegisteredClass<Derived,...> is       *)
(* initialised with init() once, before main, in no fixed order.           *)
(***************************************************************************)
\* The derived classes: Calculated, and two more for the registry to tell apart,
\* one of them under the name of Calculated.
Variants == {"Calculated", "FixedValue", "CalculatedTwin"}

\* Derived::name()
VariantName(v) ==
    CASE v = "Calculated" -> "calculated"
      [] v = "CalculatedTwin" -> "calculated"
      [] v = "FixedValue" -> "fixedValue"

\* The names a caller asks the factory for.
Names == {"calculated", "fixedValue", "zeroGradient"}

\* What the registered create function does when called: it returns the new
\* object, or it throws std::out_of_range, or it throws something else.
CtorBehaviours == {"returns", "out_of_range", "other"}

RegisteredNames(map) == { p.name : p \in map }

\* BaseClassRegistry::registerClass that overwrites an entry already there
registerClassOverwrite(map, name, createFunc) ==
    [map |-> { p \in map : p.name # name } \cup {[name |-> name, ctor |-> createFunc]},
     threw |-> FALSE]

\* BaseClassRegistry::registerClass: classMap().insert({name, createFunc});
\* throws std::runtime_error if the key exists
registerClass(map, name, createFunc) ==
    IF \E p \in map : p.name = name
    THEN [map |-> map, threw |-> TRUE]
    ELSE [map |-> map \cup {[name |-> name, ctor |-> createFunc]}, threw |-> FALSE]

NoHandle == [null |-> TRUE, variant |-> "none"]

\* the message of the catch block of create
NotFoundMessage(map, name) ==
    [text1 |-> " Could not find constructor for ", name |-> name,
     text2 |-> "valid constructors are: ", count |-> Cardinality(map)]

NoMessage == [text1 |-> "", name |-> "", text2 |-> "", count |-> 0]

\* NF_ERROR_EXIT(msg): writes the message and ends the process
NF_ERROR_EXIT(map, msg) ==
    [outcome |-> "fatal", handle |-> NoHandle, msg |-> msg, map |-> map]

\* create where NF_ERROR_EXIT returns and the nullptr after it reaches the caller
createReturnsNull(map, name, behaviour) ==
    IF name \in RegisteredNames(map) /\ behaviour = "returns"
    THEN [outcome |-> "handle",
          handle |-> [null |-> FALSE, variant |-> (CHOOSE p \in map : p.name = name).ctor],
          msg |-> NoMessage, map |-> map]
    ELSE [outcome |-> "handle", handle |-> NoHandle,
          msg |-> NotFoundMessage(map, name), map |-> map]

\* MAKE_CLASS_A_RUNTIME_FACTORY::create: classMap().at(name) and the call of the
\* constructor found are both inside the try block; std::out_of_range from either
\* reaches the catch block, which ends the process with NF_ERROR_EXIT
create(map, name, behaviour) ==
    IF name \in RegisteredNames(map)
    THEN CASE behaviour = "returns" ->
                [outcome |-> "handle",
                 handle |-> [null |-> FALSE,
                             variant |-> (CHOOSE p \in map : p.name = name).ctor],
                 msg |-> NoMessage, map |-> map]
           [] behaviour = "out_of_range" ->
                NF_ERROR_EXIT(map, NotFoundMessage(map, name))
           [] behaviour = "other" ->
                [outcome |-> "throw", handle |-> NoHandle, msg |-> NoMessage, map |-> map]
    ELSE NF_ERROR_EXIT(map, NotFoundMessage(map, name))

NoRLast == [op |-> "none", name |-> "none", variant |-> "none", behaviour |-> "none",
            outcome |-> "none", handle |-> NoHandle, msg |-> NoMessage, preMap |-> {}]

RRecord(op, name, variant, behaviour, outcome, handle, msg) ==
    [op |-> op, name |-> name, variant |-> variant, behaviour |-> behaviour,
     outcome |-> outcome, handle |-> handle, msg |-> msg, preMap |-> classMap]

\* a program with some of the variants in it, before any static initialisation
RegInit ==
    /\ classMap = {}
    /\ reg = [v \in Variants |-> FALSE]
    /\ \E used \in SUBSET Variants :
          rstate = [phase |-> "static", used |-> used,
                    instances |-> [v \in Variants |-> 0],
                    inits |-> [v \in Variants |-> 0]]
    /\ rlast = NoRLast

RegFixed ==
    /\ classMap = {}
    /\ reg = [v \in Variants |-> FALSE]
    /\ rstate = [phase |-> "static", used |-> {},
                  instances |-> [v \in Variants |-> 0],
                  inits |-> [v \in Variants |-> 0]]
    /\ rlast = NoRLast

\* bool reg = init(): the initialiser of the static member of variant v.
\* An exception that leaves it ends the process.
StaticInit(v) ==
    /\ rstate.phase = "static"
    /\ v \in rstate.used
    /\ ~reg[v]
    /\ rstate.inits[v] = 0
    /\ LET r == registerClass(classMap, VariantName(v), v)
       IN  /\ classMap' = r.map
           /\ reg' = [reg EXCEPT ![v] = ~r.threw]
           /\ rstate' = [rstate EXCEPT
                            !.phase = IF r.threw THEN "terminated" ELSE @,
                            !.inits[v] = IF r.threw THEN @ ELSE @ + 1]
           /\ rlast' = RRecord("init", VariantName(v), v, "none",
                               IF r.threw THEN "throw" ELSE "ok", NoHandle, NoMessage)

\* main begins when every static member is initialised
EnterMain ==
    /\ rstate.phase = "static"
    /\ \A v \in rstate.used : reg[v]
    /\ rstate' = [rstate EXCEPT !.phase = "main"]
    /\ rlast' = RRecord("main", "none", "none", "none", "ok", NoHandle, NoMessage)
    /\ UNCHANGED <<classMap, reg>>

\* Derived(mesh, patchID): the constructor calls registerClass<Derived>(),
\* which returns RegisteredClass<Derived,...>::reg
Construct(v) ==
    /\ rstate.phase = "main"
    /\ v \in rstate.used
    /\ rstate.instances[v] < MaxInstances
    /\ rstate' = [rstate EXCEPT !.instances[v] = @ + 1]
    /\ rlast' = RRecord("construct", VariantName(v), v, "none",
                        IF reg[v] THEN "ok" ELSE "unregistered", NoHandle, NoMessage)
    /\ UNCHANGED <<classMap, reg>>

\* RegisteredClass<Derived,...>::init() called again by the program
InitCall(v) ==
    /\ rstate.phase = "main"
    /\ v \in rstate.used
    /\ LET r == registerClass(classMap, VariantName(v), v)
       IN  /\ classMap' = r.map
           /\ rstate' = [rstate EXCEPT !.inits[v] = IF r.threw THEN @ ELSE @ + 1]
           /\ rlast' = RRecord("init", VariantName(v), v, "none",
                               IF r.threw THEN "throw" ELSE "ok", NoHandle, NoMessage)
    /\ UNCHANGED reg

\* Base::create(name, args...)
Create(name, behaviour) ==
    /\ rstate.phase = "main"
    /\ LET r == create(classMap, name, behaviour)
       IN  /\ r.outcome = "handle" /\ ~r.handle.null =>
                 rstate.instances[r.handle.variant] < MaxInstances
           /\ classMap' = r.map
           /\ rstate' = [rstate EXCEPT
                            !.phase = IF r.outcome = "fatal" THEN "terminated" ELSE @,
                            !.instances = IF r.outcome = "handle" /\ ~r.handle.null
                                          THEN [@ EXCEPT ![r.handle.variant] = @ + 1]
                                          ELSE @]
           /\ rlast' = RRecord("create", name, "none", behaviour,
                               r.outcome, r.handle, r.msg)
    /\ UNCHANGED reg

RegNext ==
    \/ \E v \in Variants : StaticInit(v)
    \/ EnterMain
    \/ \E v \in Variants : Construct(v)
    \/ \E v \in Variants : InitCall(v)
    \/ \E n \in Names, b \in CtorBehaviours : Create(n, b)

Init == ExprInit /\ FieldFixed /\ RegFixed

Next == ExprNext /\ UNCHANGED <<fieldVars, regVars>>

Spec == Init /\ [][Next]_vars

InitEval == EvalInit /\ FieldFixed /\ RegFixed

NextEval == EvalNext /\ UNCHANGED <<fieldVars, regVars>>

SpecEval == InitEval /\ [][NextEval]_vars

ExprFixed ==
    /\ objs = <<>>
    /\ last = NoLast
    /\ ev = EvIdle

InitField == FieldInit /\ ExprFixed /\ RegFixed

NextField == FieldNext /\ UNCHANGED <<exprVars, regVars, fseq, disp>>

SpecField == InitField /\ [][NextField]_vars

InitReg == RegInit /\ ExprFixed /\ FieldFixed

NextReg == RegNext /\ UNCHANGED <<exprVars, fieldVars>>

SpecReg == InitReg /\ [][NextReg]_vars

InitFill == FillInit /\ ExprFixed /\ RegFixed

NextFill == FillNext /\ UNCHANGED <<exprVars, regVars, disp>>

SpecFill == InitFill /\ [][NextFill]_vars

InitAddSub == AddSubInit /\ ExprFixed /\ RegFixed

NextAddSub == AddSubNext /\ UNCHANGED <<exprVars, regVars, disp>>

SpecAddSub == InitAddSub /\ [][NextAddSub]_vars

InitDispatch == DispatchInit /\ ExprFixed /\ RegFixed

NextDispatch == DispatchNext /\ UNCHANGED <<exprVars, regVars>>

SpecDispatch == InitDispatch /\ [][NextDispatch]_vars

InitAccess == ExprInit /\ FieldFixed /\ RegFixed

NextAccess == (ExprNext \/ AccessNext) /\ UNCHANGED <<fieldVars, regVars>>

SpecAccess == InitAccess /\ [][NextAccess]_vars

(***************************************************************************)
(* Helpers of the properties.                                              *)
(***************************************************************************)
\* source after the explicitOperation of every term of terms, first to last
RECURSIVE ApplyAll(_, _)
ApplyAll(terms, source) ==
    IF terms = <<>> THEN source
    ELSE ApplyAll(Tail(terms), [source EXCEPT !.data =
            [c \in DOMAIN source.data |->
                source.data[c] + Head(terms).coeff * Contribution(Head(terms).model)]])

\* <<number of temporal, of implicit, of explicit terms>>
CategoryCounts(e) ==
    <<Len(e.temporalOperators), Len(e.implicitOperators), Len(e.explicitOperators)>>

TermCounts(t) ==
    <<IF t.type = "Temporal" THEN 1 ELSE 0,
      IF t.type = "Implicit" THEN 1 ELSE 0,
      IF t.type = "Explicit" THEN 1 ELSE 0>>

AddCounts(c, d) == <<c[1] + d[1], c[2] + d[2], c[3] + d[3]>>

Total(c) == c[1] + c[2] + c[3]

\* the terms of ops, each with its coefficient multiplied by s
Scaled(s, ops) == [k \in 1..Len(ops) |-> [ops[k] EXCEPT !.coeff = s * ops[k].coeff]]

AllTerms(e) == e.temporalOperators \o e.implicitOperators \o e.explicitOperators

IsExplicit(t) == t.type = "Explicit"

Result == objs[last.target]

(***************************************************************************)
(* C1.  Expression::explicitOperation(accumulator) calls explicitOperation *)
(* of exactly the Explicit terms, each once, in the order of insertion,    *)
(* term k complete on the shared accumulator before term k+1 begins, never *)
(* a Temporal or Implicit term, and returns the accumulator as all of them *)
(* left it.                                                                *)
(***************************************************************************)
C1_ExplicitInOrder ==
    ev.pc # "idle" =>
        LET e == objs[ev.obj]
            explicit == SelectSeq(AllTerms(e), IsExplicit)
            done == IF ev.pc = "term" THEN ev.k - 1 ELSE
                    IF ev.pc = "done" THEN Len(explicit) ELSE ev.k - 1
        IN  /\ explicit = e.explicitOperators
            /\ Len(ev.log) = 2 * done + (IF ev.pc = "term" THEN 1 ELSE 0)
            /\ \A m \in 1..Len(ev.log) :
                  /\ ev.log[m][1] = (IF m % 2 = 1 THEN "begin" ELSE "end")
                  /\ (m + 1) \div 2 <= Len(explicit)
                  /\ ev.log[m][2] = explicit[(m + 1) \div 2]
                  /\ ev.log[m][2].type = "Explicit"
            /\ done <= Len(explicit)
            /\ ev.source = ApplyAll(SubSeq(explicit, 1, done), ev.given)
            /\ ev.pc = "done" =>
                  /\ Len(ev.log) = 2 * Len(explicit)
                  /\ ev.ret = ApplyAll(explicit, ev.given)

\* two Explicit terms and an Implicit one, evaluated into the caller's accumulator
C1_Witness ==
    /\ ev.pc = "done"
    /\ Len(objs[ev.obj].explicitOperators) = 2
    /\ Len(objs[ev.obj].implicitOperators) = 1
    /\ objs[ev.obj].explicitOperators[1] # objs[ev.obj].explicitOperators[2]
    /\ ev.given.data = <<1, 1>>
    /\ ev.ret.data # ev.given.data

(***************************************************************************)
(* C2.  Composition neither drops nor duplicates a term: the size and the  *)
(* count of every category of e1 + e2, e1 - e2 is the sum of the           *)
(* operands', of e + t, e - t one more than e's in the category of t, of   *)
(* t + t2, t - t2 it is 2, and s * e has the counts of e.                  *)
(***************************************************************************)
C2_SizesAdd ==
    /\ last.op \in {"PlusEE", "MinusEE"} =>
          /\ CategoryCounts(Result) =
                AddCounts(CategoryCounts(last.pre[last.i]), CategoryCounts(last.pre[last.j]))
          /\ size(Result) = Total(CategoryCounts(last.pre[last.i]))
                              + Total(CategoryCounts(last.pre[last.j]))
    /\ last.op \in {"PlusET", "MinusET"} =>
          /\ CategoryCounts(Result) =
                AddCounts(CategoryCounts(last.pre[last.i]), TermCounts(last.tr))
          /\ size(Result) = Total(CategoryCounts(last.pre[last.i])) + 1
    /\ last.op \in {"PlusTT", "MinusTT"} =>
          /\ CategoryCounts(Result) = AddCounts(TermCounts(last.tl), TermCounts(last.tr))
          /\ size(Result) = 2
    /\ last.op = "Times" =>
          /\ CategoryCounts(Result) = CategoryCounts(last.pre[last.i])
          /\ size(Result) = Total(CategoryCounts(last.pre[last.i]))

\* e1 + e2 with terms on both sides, an Implicit one on the right
C2_Witness ==
    /\ last.op = "PlusEE"
    /\ last.i # last.j
    /\ CategoryCounts(last.pre[last.i])[3] = 2
    /\ CategoryCounts(last.pre[last.j])[2] = 1
    /\ size(Result) = 3

(***************************************************************************)
(* C3.  s * e is an Expression on the Executor of e, of the size of e, in  *)
(* which the i-th term of every category is the i-th term of e in that     *)
(* category with its coefficient multiplied by s.                          *)
(***************************************************************************)
C3_ScalePreserves ==
    last.op = "Times" =>
        LET e == last.pre[last.i]
        IN  /\ Result.exec = e.exec
            /\ size(Result) = size(e)
            /\ Result.temporalOperators = Scaled(last.scale, e.temporalOperators)
            /\ Result.implicitOperators = Scaled(last.scale, e.implicitOperators)
            /\ Result.explicitOperators = Scaled(last.scale, e.explicitOperators)
            /\ \A t \in { Result.temporalOperators[k] : k \in 1..Len(Result.temporalOperators) } :
                  t.type = "Temporal"
            /\ \A t \in { Result.implicitOperators[k] : k \in 1..Len(Result.implicitOperators) } :
                  t.type = "Implicit"
            /\ \A t \in { Result.explicitOperators[k] : k \in 1..Len(Result.explicitOperators) } :
                  t.type = "Explicit"

\* 2 * e for an e on GPU with a Temporal and two distinct Explicit terms
C3_Witness ==
    /\ last.op = "Times"
    /\ last.scale = 2
    /\ last.pre[last.i].exec = "GPU"
    /\ Len(last.pre[last.i].temporalOperators) = 1
    /\ Len(last.pre[last.i].explicitOperators) = 2
    /\ Result.explicitOperators[2].coeff = 4
    /\ Result.explicitOperators[1].coeff = 2

(***************************************************************************)
(* C4.  Subtraction is addition of the negation: e - e2 is e + (-1 * e2),  *)
(* e - t is e + (-1 * t), t - t2 is t + (-1 * t2): the same terms,         *)
(* categories, coefficients and order, and so the same explicit result on  *)
(* equal zero-filled accumulators.                                         *)
(***************************************************************************)
SameEvaluation(e1, e2) ==
    \A n \in 0..MaxCells :
        ApplyAll(e1.explicitOperators, NewField(e1.exec, n, 0))
            = ApplyAll(e2.explicitOperators, NewField(e2.exec, n, 0))

C4_MinusIsPlusNegated ==
    /\ last.op = "MinusEE" =>
          LET e == last.pre[last.i]
              e2 == last.pre[last.j]
              sum == operatorPlusEE(e, operatorTimes(-1, e2))
          IN  /\ Result = sum
              /\ SameEvaluation(Result, sum)
              /\ Result.exec = e.exec
              /\ Result.temporalOperators = e.temporalOperators \o Scaled(-1, e2.temporalOperators)
              /\ Result.implicitOperators = e.implicitOperators \o Scaled(-1, e2.implicitOperators)
              /\ Result.explicitOperators = e.explicitOperators \o Scaled(-1, e2.explicitOperators)
    /\ last.op = "MinusET" =>
          LET sum == operatorPlusET(last.pre[last.i], ScaleOperator(-1, last.tr))
          IN  /\ Result = sum
              /\ SameEvaluation(Result, sum)
              /\ AllTerms(Result) # AllTerms(last.pre[last.i])
    /\ last.op = "MinusTT" =>
          LET sum == operatorPlusTT(last.tl, ScaleOperator(-1, last.tr))
          IN  /\ Result = sum
              /\ SameEvaluation(Result, sum)
              /\ \E k \in 1..2 : AllTerms(Result)[k].coeff = -last.tr.coeff

\* e - e2 with Explicit terms on both sides
C4_Witness ==
    /\ last.op = "MinusEE"
    /\ last.i # last.j
    /\ Len(last.pre[last.i].explicitOperators) = 1
    /\ Len(last.pre[last.j].explicitOperators) = 2
    /\ Result.explicitOperators[3].coeff = -2

(***************************************************************************)
(* C5.  add, sub and mul on buffers of different sizes fail with           *)
(* LengthMismatch before any element is written: both buffers are as they  *)
(* were, and the caller gets the error.  On equal sizes they return.       *)
(***************************************************************************)
C5_LengthMismatchBeforeWrite ==
    flast.op \in {"add", "sub", "mul"} =>
        /\ fsize(flast.preA) # fsize(flast.preB) =>
              /\ flast.outcome = "LengthMismatch"
              /\ fa = flast.preA
              /\ fb = flast.preB
        /\ fsize(flast.preA) = fsize(flast.preB) => flast.outcome = "ok"
        /\ fsize(fa) = fsize(flast.preA)
        /\ fsize(fb) = fsize(flast.preB)

\* mul of a field of two non-zero cells and a field of one cell that would change it
C5_Witness ==
    /\ flast.op = "mul"
    /\ flast.preA.data = <<1, 1>>
    /\ flast.preB.data = <<2>>
    /\ flast.outcome = "LengthMismatch"

(***************************************************************************)
(* C6.  setField(field, view) copies view[i] into field[i] for every i     *)
(* when the lengths are equal, and fails with LengthMismatch, no element   *)
(* read or written, when the view is shorter or longer than the field.     *)
(***************************************************************************)
C6_SetFieldChecksLength ==
    flast.op = "setField" =>
        IF Len(flast.view) = fsize(flast.preA)
        THEN flast.outcome = "ok" /\ fa.data = flast.view
        ELSE flast.outcome = "LengthMismatch" /\ fa = flast.preA

\* what setField does on equal lengths
C6_SetFieldCopiesEqualLength ==
    (flast.op = "setField" /\ Len(flast.view) = fsize(flast.preA)) =>
        (flast.outcome = "ok" /\ fa.data = flast.view /\ fa.exec = flast.preA.exec)


(***************************************************************************)
(* C7.  create(name, ...) with a name that is not registered hands no      *)
(* handle to the caller, null or other: it ends the process, with a        *)
(* message that holds the name asked for and the number of registered      *)
(* constructors, and the registry is as it was.                            *)
(***************************************************************************)
C7_UnknownNameIsFatal ==
    (rlast.op = "create" /\ rlast.name \notin RegisteredNames(rlast.preMap)) =>
        /\ rlast.outcome = "fatal"
        /\ rlast.handle = NoHandle
        /\ rstate.phase = "terminated"
        /\ rlast.msg # NoMessage
        /\ rlast.msg.name = rlast.name
        /\ rlast.msg.count = Cardinality(rlast.preMap)
        /\ classMap = rlast.preMap

\* a lookup of a name nobody registered, in a registry of two constructors
C7_Witness ==
    /\ rlast.op = "create"
    /\ rlast.name = "zeroGradient"
    /\ Cardinality(rlast.preMap) = 2
    /\ rlast.outcome = "fatal"

(***************************************************************************)
(* C8.  create(name, ...) with a registered name returns a non-null handle *)
(* built by the constructor registered under that name, whose name() is    *)
(* the name asked for, and the unknown-variant error is reported only if   *)
(* the name is not registered, whatever the registered constructor does.   *)
(***************************************************************************)
C8_KnownNameGivesHandle ==
    rlast.op = "create" =>
        /\ (rlast.name \in RegisteredNames(rlast.preMap) /\ rlast.behaviour = "returns") =>
              /\ rlast.outcome = "handle"
              /\ ~rlast.handle.null
              /\ [name |-> rlast.name, ctor |-> rlast.handle.variant] \in rlast.preMap
              /\ VariantName(rlast.handle.variant) = rlast.name
        /\ rlast.outcome = "fatal" => rlast.name \notin RegisteredNames(rlast.preMap)

\* what the code does for a registered name whose constructor returns
C8_HandleWhenConstructorReturns ==
    (rlast.op = "create" /\ rlast.name \in RegisteredNames(rlast.preMap)
        /\ rlast.behaviour = "returns") =>
        /\ rlast.outcome = "handle"
        /\ ~rlast.handle.null
        /\ VariantName(rlast.handle.variant) = rlast.name

(***************************************************************************)
(* C9.  A variant type is registered once, however many instances are      *)
(* built and however often registerClass<Derived>() is called; the         *)
(* registry holds at most one constructor per name in every state;         *)
(* registerClass with a name already there raises an error and leaves the  *)
(* map, its size and the constructor under that name, as it was.           *)
(***************************************************************************)
C9_RegisteredOnce ==
    /\ \A p, q \in classMap : p.name = q.name => p = q
    /\ \A v \in Variants :
          /\ rstate.inits[v] <= 1
          /\ rstate.inits[v] = Cardinality({ p \in classMap : p.ctor = v })
          /\ (rstate.phase = "main" /\ v \in rstate.used) => rstate.inits[v] = 1
          /\ rstate.instances[v] > 0 => rstate.inits[v] = 1
    /\ (rlast.op = "init" /\ rlast.name \in RegisteredNames(rlast.preMap)) =>
          /\ rlast.outcome = "throw"
          /\ classMap = rlast.preMap
    /\ (rlast.op = "init" /\ rlast.name \notin RegisteredNames(rlast.preMap)) =>
          /\ rlast.outcome = "ok"
          /\ classMap = rlast.preMap \cup {[name |-> rlast.name, ctor |-> rlast.variant]}
    /\ rlast.op = "construct" => classMap = rlast.preMap

\* init() called again after two instances of the variant were built
C9_Witness ==
    /\ rlast.op = "init"
    /\ rlast.outcome = "throw"
    /\ rstate.phase = "main"
    /\ rstate.instances[rlast.variant] = 2
    /\ Cardinality(classMap) = 2

(***************************************************************************)
(* C10.  A composition and addExpression(other) leave the caller's         *)
(* operands as they were: every object but the new result, or the receiver *)
(* of addOperator and addExpression, holds the terms it held before, also  *)
(* when the result is added to later.                                      *)
(***************************************************************************)
C10_OperandsUnmodified ==
    last.op # "none" =>
        /\ Len(objs) >= Len(last.pre)
        /\ \A s \in 1..Len(last.pre) : s # last.target => objs[s] = last.pre[s]
        /\ last.op \in CompositionOps => last.target = Len(last.pre) + 1
        /\ last.op = "addExpression" => objs[last.j] = last.pre[last.j]

\* e.addExpression(e): the argument is the receiver
SelfAdd == last.op = "addExpression" /\ last.i = last.j

\* what the code keeps: a composition, and addExpression on another object, leave
\* the operands as they were; e.addExpression(e) on an empty e does nothing
C10_DistinctOperandsUnmodified ==
    last.op # "none" =>
        /\ Len(objs) >= Len(last.pre)
        /\ \A s \in 1..Len(last.pre) : s # last.target => objs[s] = last.pre[s]
        /\ last.op \in CompositionOps => last.target = Len(last.pre) + 1
        /\ (last.op = "addExpression" /\ ~SelfAdd) => objs[last.j] = last.pre[last.j]
        /\ (SelfAdd /\ size(last.pre[last.i]) = 0) =>
              /\ last.outcome = "ok"
              /\ objs = last.pre

\* a term added to the result of a composition of two non-empty operands
C10_Witness ==
    /\ last.op = "addOperator"
    /\ last.target = 3
    /\ Len(last.pre) = 3
    /\ size(objs[1]) > 0
    /\ size(objs[2]) > 0
    /\ size(objs[3]) > size(objs[1]) + 1

(***************************************************************************)
(* C11.  In every state reached by addOperator, addExpression and the      *)
(* compositions, every term of every sequence of an Expression has the     *)
(* Executor of the Expression; t1 + t2 is an Expression on the Executor of *)
(* t1 in which t1 and t2 both have that Executor.                          *)
(***************************************************************************)
TermsShareExecutor(e) ==
    \A k \in 1..Len(AllTerms(e)) : AllTerms(e)[k].exec = e.exec

C11_TermsShareExecutor ==
    /\ \A s \in 1..Len(objs) : TermsShareExecutor(objs[s])
    /\ last.op = "PlusTT" =>
          /\ Result.exec = last.tl.exec
          /\ last.tr.exec = Result.exec

\* what the code keeps: the Executor of the receiver or of the left operand, and
\* the Executor of every term, whether or not the two agree
C11_ExecutorOfLeftOperand ==
    /\ last.op \in {"addOperator", "addExpression", "PlusEE", "PlusET", "Times",
                    "MinusEE", "MinusET"} =>
          Result.exec = last.pre[last.i].exec
    /\ last.op \in {"PlusTT", "MinusTT"} =>
          /\ Result.exec = last.tl.exec
          /\ \E k \in 1..2 : AllTerms(Result)[k] = last.tl
          /\ \E k \in 1..2 : AllTerms(Result)[k].exec = last.tr.exec
    /\ (last.op \in {"PlusTT", "MinusTT"} /\ last.tl.exec = last.tr.exec) =>
          TermsShareExecutor(Result)
    /\ (last.op \in {"addOperator"} /\ TermsShareExecutor(last.pre[last.i])
            /\ last.tl.exec = last.pre[last.i].exec) =>
          TermsShareExecutor(Result)
    /\ (last.op \in {"PlusET", "MinusET"} /\ TermsShareExecutor(last.pre[last.i])
            /\ last.tr.exec = last.pre[last.i].exec) =>
          TermsShareExecutor(Result)
    /\ (last.op \in {"addExpression", "PlusEE", "MinusEE"} /\ ~SelfAdd
            /\ TermsShareExecutor(last.pre[last.i]) /\ TermsShareExecutor(last.pre[last.j])
            /\ last.pre[last.i].exec = last.pre[last.j].exec) =>
          TermsShareExecutor(Result)
    /\ (last.op = "Times" /\ TermsShareExecutor(last.pre[last.i])) =>
          TermsShareExecutor(Result)

(***************************************************************************)
(* C16.  addOperator(t) appends t at the end of the sequence of the Type   *)
(* of t and leaves the other two sequences, and every element that was     *)
(* there, as they were; addExpression(other) appends, category by          *)
(* category, the sequence of other after the sequence of this, both in     *)
(* their order; the explicit sequence of e1 + e2 is that of e1 followed by *)
(* that of e2.                                                             *)
(***************************************************************************)
C16_AppendInOrder ==
    /\ last.op \in {"addOperator", "PlusET"} =>
          LET e == last.pre[last.i]
              t == IF last.op = "addOperator" THEN last.tl ELSE last.tr
          IN  /\ Result.temporalOperators =
                    (IF t.type = "Temporal" THEN e.temporalOperators \o <<t>>
                     ELSE e.temporalOperators)
              /\ Result.implicitOperators =
                    (IF t.type = "Implicit" THEN e.implicitOperators \o <<t>>
                     ELSE e.implicitOperators)
              /\ Result.explicitOperators =
                    (IF t.type = "Explicit" THEN e.explicitOperators \o <<t>>
                     ELSE e.explicitOperators)
              /\ size(Result) = size(e) + 1
    /\ last.op \in {"addExpression", "PlusEE"} =>
          LET e == last.pre[last.i]
              other == last.pre[last.j]
          IN  /\ Result.temporalOperators = e.temporalOperators \o other.temporalOperators
              /\ Result.implicitOperators = e.implicitOperators \o other.implicitOperators
              /\ Result.explicitOperators = e.explicitOperators \o other.explicitOperators

\* what the code keeps: addOperator appends in its category, and addExpression
\* appends the sequences of an object other than the receiver
C16_AppendFromOtherObject ==
    /\ last.op \in {"addOperator", "PlusET"} =>
          LET e == last.pre[last.i]
              t == IF last.op = "addOperator" THEN last.tl ELSE last.tr
          IN  /\ Result.temporalOperators =
                    (IF t.type = "Temporal" THEN e.temporalOperators \o <<t>>
                     ELSE e.temporalOperators)
              /\ Result.implicitOperators =
                    (IF t.type = "Implicit" THEN e.implicitOperators \o <<t>>
                     ELSE e.implicitOperators)
              /\ Result.explicitOperators =
                    (IF t.type = "Explicit" THEN e.explicitOperators \o <<t>>
                     ELSE e.explicitOperators)
              /\ size(Result) = size(e) + 1
    /\ (last.op \in {"addExpression", "PlusEE"} /\ ~SelfAdd) =>
          LET e == last.pre[last.i]
              other == last.pre[last.j]
          IN  /\ last.outcome = "ok"
              /\ Result.temporalOperators = e.temporalOperators \o other.temporalOperators
              /\ Result.implicitOperators = e.implicitOperators \o other.implicitOperators
              /\ Result.explicitOperators = e.explicitOperators \o other.explicitOperators

\* e.addExpression(e) on an e of two Explicit terms: the process dies, or the
\* second element appended is not the second element of e
C16_SelfAddDiverges ==
    /\ SelfAdd
    /\ last.pre[last.i].explicitOperators = <<NewOperator(1, "Explicit", 1, "Serial"),
                                              NewOperator(2, "Explicit", 2, "Serial")>>
    /\ \/ last.outcome = "crash"
       \/ /\ Len(Result.explicitOperators) = 4
          /\ Result.explicitOperators[4] =
                 [NewOperator(2, "Explicit", 2, "Serial") EXCEPT !.exec = ""]

\* a second Explicit term added to an Expression that holds an Explicit and an
\* Implicit term
C16_Witness ==
    /\ last.op = "addOperator"
    /\ last.tl.type = "Explicit"
    /\ Len(last.pre[last.i].explicitOperators) = 1
    /\ Len(last.pre[last.i].implicitOperators) = 1
    /\ last.pre[last.i].explicitOperators[1] # last.tl
    /\ Result.explicitOperators[2] = last.tl

(***************************************************************************)
(* C15.  explicitOperation(n) returns a buffer of n cells on the Executor  *)
(* of the Expression, every cell the sum over the Explicit terms, in the   *)
(* order of insertion and from zero, of coefficient times contribution:    *)
(* zeros when no term is Explicit, whatever the other terms are, and       *)
(* [13,13,13,13] for n = 4 with T1 (coefficient 1, contributes 3) followed *)
(* by T2 (coefficient 2, contributes 5).                                   *)
(***************************************************************************)
\* acc + coeff * contribution, term after term
RECURSIVE SumInOrder(_, _)
SumInOrder(terms, acc) ==
    IF terms = <<>> THEN acc
    ELSE SumInOrder(Tail(terms), acc + Head(terms).coeff * Contribution(Head(terms).model))

C15_SumOfExplicitTerms ==
    (ev.pc = "done" /\ ev.entry = "nCells") =>
        LET e == objs[ev.obj]
            explicit == SelectSeq(AllTerms(e), IsExplicit)
        IN  /\ fsize(ev.ret) = ev.nCells
            /\ ev.ret.exec = e.exec
            /\ \A c \in 1..ev.nCells : ev.ret.data[c] = SumInOrder(explicit, 0)
            /\ explicit = <<>> => ev.ret = NewField(e.exec, ev.nCells, 0)
            /\ (ev.nCells = 4
                  /\ explicit = <<NewOperator(1, "Explicit", 1, "Serial"),
                                  NewOperator(2, "Explicit", 2, "Serial")>>) =>
                  ev.ret.data = <<13, 13, 13, 13>>

\* T1 then T2, and an Implicit term beside them, evaluated on 4 cells
C15_Witness ==
    /\ ev.pc = "done"
    /\ ev.entry = "nCells"
    /\ ev.nCells = 4
    /\ objs[ev.obj].explicitOperators = <<NewOperator(1, "Explicit", 1, "Serial"),
                                          NewOperator(2, "Explicit", 2, "Serial")>>
    /\ Len(objs[ev.obj].implicitOperators) = 1
    /\ ev.ret.data = <<13, 13, 13, 13>>

(***************************************************************************)
(* C12.  Through addOperator, addExpression, the compositions and the      *)
(* accessors, every sequence of an Expression holds only terms of its own  *)
(* category, and a term once inserted is never removed, reordered,         *)
(* replaced or moved to another category: the accessors give read-only     *)
(* access.                                                                 *)
(***************************************************************************)
CategoryOf(cat) ==
    CASE cat = "temporalOperators" -> "Temporal"
      [] cat = "implicitOperators" -> "Implicit"
      [] cat = "explicitOperators" -> "Explicit"

InOwnCategory(e) ==
    \A cat \in Categories : \A k \in 1..Len(e[cat]) : e[cat][k].type = CategoryOf(cat)

\* what before held is still there, in place
KeepsInserted(before, after) ==
    \A cat \in Categories :
        /\ Len(after[cat]) >= Len(before[cat])
        /\ SubSeq(after[cat], 1, Len(before[cat])) = before[cat]

C12_AccessorsReadOnly ==
    /\ \A s \in 1..Len(objs) : InOwnCategory(objs[s])
    /\ last.op # "none" =>
          \A s \in 1..Len(last.pre) : KeepsInserted(last.pre[s], objs[s])

\* what the code keeps: the const overloads change nothing, and so long as the
\* caller does not write through the non-const overloads the categories hold
C12_WithoutMutableAccess ==
    /\ last.op = "read" => objs = last.pre
    /\ (last.op \notin MutableAccessOps /\ ~SelfAdd) =>
          /\ \A s \in 1..Len(objs) : InOwnCategory(objs[s])
          /\ last.op # "none" =>
                \A s \in 1..Len(last.pre) : KeepsInserted(last.pre[s], objs[s])

(***************************************************************************)
(* C13.  fill(field, v, range) with a range inside the buffer sets the     *)
(* elements of index in [start, end) to v and leaves every other element   *)
(* and the size as they were; after fill(field, v) on the whole buffer,    *)
(* equal(field, v) is true for every value v and every length, 0 included. *)
(***************************************************************************)
FillWroteRange ==
    flast.op \in {"fill", "fillRange"} =>
        /\ fsize(fa) = fsize(flast.preA)
        /\ fa.exec = flast.preA.exec
        /\ \A i \in 1..fsize(fa) :
              fa.data[i] = (IF flast.start < i /\ i <= flast.end
                            THEN flast.value ELSE flast.preA.data[i])
        /\ flast.op = "fill" => \A i \in 1..fsize(fa) : fa.data[i] = flast.value
        /\ fb = flast.preB

EqualOfFillValue ==
    /\ flast.op = "equal"
    /\ fseq[1].op = "fill"
    /\ flast.value = fseq[1].value

C13_FillThenEqual ==
    /\ FillWroteRange
    /\ EqualOfFillValue => flast.outcome = "true"

\* C13 as the code has it: equal compares with !=, under which NaN differs from
\* itself, so that equal(field, v) after fill(field, v) is true for every v but
\* NaN, and for NaN on the buffer of length 0 only
C13_FillThenEqualUnlessNaN ==
    /\ FillWroteRange
    /\ EqualOfFillValue =>
          (flast.outcome = "true" <=> (flast.value # NaN \/ fsize(fa) = 0))
    /\ EqualOfFillValue => flast.outcome \in {"true", "false"}

\* a buffer of two cells that held other values, filled with 2 and found equal to 2
C13_Witness ==
    /\ EqualOfFillValue
    /\ flast.value = 2
    /\ fseq[1].preA.data = <<0, 1>>
    /\ fa.data = <<2, 2>>
    /\ flast.outcome = "true"

(***************************************************************************)
(* C14.  For buffers a and b of equal length on one Executor, add(a, b)    *)
(* followed by sub(a, b) restores every element of a to its original value *)
(* exactly and leaves b and both sizes as they were.                       *)
(***************************************************************************)
AddThenSub ==
    /\ flast.op = "sub"
    /\ Len(fseq) = 1
    /\ fseq[1].op = "add"
    /\ fsize(fseq[1].preA) = fsize(fseq[1].preB)
    /\ fseq[1].preA.exec = fseq[1].preB.exec

BAndSizesKept ==
    /\ fb = fseq[1].preB
    /\ fsize(fa) = fsize(fseq[1].preA)
    /\ flast.outcome = "ok"
    /\ fseq[1].outcome = "ok"

C14_AddThenSubRestores ==
    AddThenSub =>
        /\ \A i \in 1..fsize(fa) : ~FloatNotEqual(fa.data[i], fseq[1].preA.data[i])
        /\ BAndSizesKept

\* a[i] and b[i] are finite and their sum is a float: nothing is rounded away
SumIsExact(va, vb) == IsFinite(va) /\ IsFinite(vb) /\ RoundToFloat(va + vb) = va + vb

\* C14 as the code has it: b and the sizes are kept, a[i] becomes
\* (a[i] + b[i]) - b[i] as float computes it, which is a[i] wherever a[i] and b[i]
\* are finite and their sum is computed without rounding; it is not a[i] for
\* a[i] = 1 and b[i] = 2^24, nor for a b[i] that is infinite or NaN
C14_RestoresWhereSumExact ==
    AddThenSub =>
        /\ \A i \in 1..fsize(fa) :
              fa.data[i] = FloatSub(FloatAdd(fseq[1].preA.data[i], fseq[1].preB.data[i]),
                                    fseq[1].preB.data[i])
        /\ \A i \in 1..fsize(fa) :
              SumIsExact(fseq[1].preA.data[i], fseq[1].preB.data[i]) =>
                  ~FloatNotEqual(fa.data[i], fseq[1].preA.data[i])
        /\ \A i \in 1..fsize(fa) :
              (fseq[1].preA.data[i] = 1 /\ fseq[1].preB.data[i] = Big) => fa.data[i] = 0
        /\ \A i \in 1..fsize(fa) :
              ~IsFinite(fseq[1].preB.data[i]) => fa.data[i] = NaN
        /\ BAndSizesKept

\* a sum that is rounded and an a[i] that is restored all the same
C14_RoundedYetRestored ==
    /\ AddThenSub
    /\ fseq[1].preA.data = <<Big>>
    /\ fseq[1].preB.data = <<3>>
    /\ flast.preA.data = <<Big + 4>>
    /\ fa.data = <<Big>>

\* a finite a[i] and an infinite b[i]: the sum is the infinity, the difference NaN
C14_InfiniteOperand ==
    /\ AddThenSub
    /\ fseq[1].preA.data = <<1>>
    /\ fseq[1].preB.data = <<PosInf>>
    /\ flast.preA.data = <<PosInf>>
    /\ fa.data = <<NaN>>

\* two cells, sums without rounding that differ from a, restored by sub
C14_Witness ==
    /\ AddThenSub
    /\ fseq[1].preA.data = <<1, Big>>
    /\ fseq[1].preB.data = <<1, Big>>
    /\ flast.preA.data = <<2, 2 * Big>>
    /\ fa.data = <<1, Big>>

(***************************************************************************)
(* C17.  A dispatch of fill, setField, scalarMul, add, sub or mul applies  *)
(* its body to every index of its range once and returns when all are      *)
(* done; the body of index i reads and writes element i only, so that the  *)
(* buffer after the call is the same in whatever order and interleaving    *)
(* the indices are processed, and no partly updated buffer is seen after   *)
(* the return.                                                             *)
(***************************************************************************)
\* the indices the dispatch ranges over
DispatchRange ==
    IF disp.op = "fill"
    THEN { i \in 1..fsize(disp.preA) : disp.start < i /\ i <= disp.end }
    ELSE 1..fsize(disp.preA)

\* the buffer the call leaves, as a function of the buffers it was called on
CallResult ==
    CASE disp.op = "fill" -> fill(disp.preA, disp.value, disp.start, disp.end)
      [] disp.op = "setField" -> setField(disp.preA, disp.view, <<>>, FALSE).a
      [] disp.op = "scalarMul" -> scalarMul(disp.preA, disp.value)
      [] disp.op \in BinaryNames -> fieldBinaryOp(disp.preA, disp.preB, disp.op).a

C17_DispatchOrderIndependent ==
    /\ disp.pc \in {"running", "returned"} =>
          /\ fsize(fa) = fsize(disp.preA)
          /\ fb = disp.preB
          /\ \A i \in 1..fsize(fa) :
                /\ disp.applied[i] <= 1
                /\ i \notin DispatchRange => disp.applied[i] = 0
                /\ disp.applied[i] = 1 => fa.data[i] = CallResult.data[i]
                /\ disp.applied[i] = 0 => fa.data[i] = disp.preA.data[i]
    /\ disp.pc = "returned" =>
          /\ disp.pending = {}
          /\ disp.loaded = {}
          /\ \A i \in DispatchRange : disp.applied[i] = 1
          /\ Len(disp.order) = Cardinality(DispatchRange)
          /\ fa = CallResult
    /\ disp.pc = "threw" => fa = disp.preA /\ fb = disp.preB

\* scalarMul over two cells that changes both, the second index written first
C17_Witness ==
    /\ disp.pc = "returned"
    /\ disp.op = "scalarMul"
    /\ disp.value = 2
    /\ disp.preA.data = <<1, 2>>
    /\ disp.order = <<2, 1>>
    /\ fa.data = <<2, 4>>

====
